---------------------------- MODULE Spec2Model ----------------------------
(***************************************************************************)
(* A model of runner11.js, the headless Earth Engine lab runner: the       *)
(* parameter validator (validateSidecar), the module resolver (geeRequire) *)
(* and the experiment orchestrator (runExperiment, runBatch, main).        *)
(***************************************************************************)
EXTENDS Integers, Sequences, FiniteSets, TLC

VARIABLES
  \* the validator
  data,          \* the parsed sidecar: what validateSidecar is handed
  vres,          \* what validateSidecar did with it
  \* the command line and the disk
  cfg,           \* config: the flags of parseArgs
  files,         \* the sidecar file, or the *.json files of the batch directory
  scriptExists,  \* whether the caller script file exists
  keyFile,       \* the service account key file: missing, invalid or ok
  fs,            \* the local paths under the module root that are files
  progs,         \* the code of each module file
  script,        \* the code of the caller script
  \* the run
  mainPc,        \* where the main entry point is
  idx,           \* runBatch's i (1-based): the file of the current experiment
  results,       \* runBatch's results
  summary,       \* the batch summary, once logged
  expPc,         \* where the current runExperiment call is
  promise,       \* the promise the current runExperiment call returned
  exitCode,      \* the process exit code (NotExited while it runs)
  effects,       \* what the run did to the outside, in order
  \* the resolver
  moduleCache,   \* the process-wide Map of import identifier to exports
  stack,         \* the code being executed: the caller script and, nested, modules
  rlog,          \* what the geeRequire calls did, in order
  nextObj        \* the identity of the next exports object to be created

valVars == <<data, vres>>
envVars == <<cfg, files, scriptExists, keyFile, fs, progs, script>>
runVars == <<mainPc, idx, results, summary, expPc, promise, exitCode, effects>>
resVars == <<moduleCache, stack, rlog, nextObj>>
vars == <<valVars, envVars, runVars, resVars>>

(***************************************************************************)
(* JavaScript values, as JSON.parse builds them.  Numbers are counted in   *)
(* tenths (Num(15) is 1.5), so the interval [0, 1] is 0 .. 10.             *)
(***************************************************************************)
Undef == [t |-> "undefined"]
Null == [t |-> "null"]
Bool(b) == [t |-> "boolean", b |-> b]
Num(n) == [t |-> "number", n |-> n]
Str(s) == [t |-> "string", s |-> s]
Arr(xs) == [t |-> "array", xs |-> xs]
Obj(f) == [t |-> "object", f |-> f]

EmptyObj == Obj(<<>>)

IsUndefined(v) == v.t = "undefined"

\* v === true
IsTrue(v) == v.t = "boolean" /\ v.b

\* Array.isArray(v)
IsArray(v) == v.t = "array"

\* ToBoolean: undefined, null, false, 0 and "" are falsy; all else is truthy
Truthy(v) ==
  CASE v.t = "undefined" -> FALSE
    [] v.t = "null" -> FALSE
    [] v.t = "boolean" -> v.b
    [] v.t = "number" -> v.n # 0
    [] v.t = "string" -> v.s # ""
    [] OTHER -> TRUE

\* v[k] throws a TypeError exactly when v is undefined or null
CanRead(v) == v.t \notin {"undefined", "null"}

\* v[k] for a readable v and one of the key names the runner uses: only a
\* plain object carries them
Get(v, k) ==
  IF v.t = "object" /\ k \in DOMAIN v.f THEN v.f[k] ELSE Undef

\* the value v with the value at the key path p replaced by x
RECURSIVE SetPath(_, _, _)
SetPath(v, p, x) ==
  IF p = <<>> THEN x
  ELSE LET k == Head(p)
           old == IF v.t = "object" THEN v.f ELSE <<>>
           sub == IF k \in DOMAIN old THEN old[k] ELSE Undef
       IN Obj([j \in (DOMAIN old) \cup {k} |->
                 IF j = k THEN SetPath(sub, Tail(p), x) ELSE old[j]])

Range(s) == {s[i] : i \in DOMAIN s}

SeqMap(F(_), s) == [i \in 1..Len(s) |-> F(s[i])]

(***************************************************************************)
(* Messages: a template literal is the sequence of its pieces, a literal   *)
(* piece or an interpolated value.                                         *)
(***************************************************************************)
Lit(s) == [lit |-> s]
Val(v) == [val |-> v]

Mentions(msg, s) == \E i \in DOMAIN msg : msg[i] = Lit(s)

MsgMissingSection(section) == <<Lit("Missing required section: "), Lit(section)>>
MsgMissingKey(section, key) ==
  <<Lit("Missing key in "), Lit(section), Lit(": "), Lit(key)>>
MsgBinCuts == <<Lit("inputParameters"), Lit("."), Lit("binCuts"), Lit(" must be an array")>>
MsgModalityMissing(key) == <<Lit("modalityDictionary missing key: "), Lit(key)>>
MsgNoModality == <<Lit("No modality is set to true in modalityDictionary")>>
MsgYearsList(sensor) == <<Lit(sensor), Lit(".yearsList should be an array")>>
MsgFirstDOY(sensor) == <<Lit(sensor), Lit(".firstDOY not specified")>>
MsgLastDOY(sensor) == <<Lit(sensor), Lit(".lastDOY not specified")>>
MsgChangeThreshold(v) ==
  <<Lit("changeThreshold ("), Val(v), Lit(") is outside typical range [0, 1]")>>
MsgDropGain == <<Lit("dropThreshold < gainThreshold - this may produce unexpected results")>>


(***************************************************************************)
(* Relational comparison a < b of two JSON values: both operands go        *)
(* through ToPrimitive (an array joins its elements, a plain object gives  *)
(* "[object Object]"); two strings compare as strings, anything else as    *)
(* numbers, and a comparison with NaN is false.                            *)
(***************************************************************************)
\* the strings of the model in code-unit order
StringOrder == <<"", "-2,0,2", "2", "[object Object]", "x">>

StrRank(s) == CHOOSE i \in DOMAIN StringOrder : StringOrder[i] = s

\* String(v) for an array or object operand; the arrays of the model are the
\* empty one and the three-element bin cuts
ToPrimitive(v) ==
  CASE v.t = "array" -> Str(IF v.xs = <<>> THEN "" ELSE "-2,0,2")
    [] v.t = "object" -> Str("[object Object]")
    [] OTHER -> v

\* ToNumber of a primitive: [nan, n], n in tenths
ToNumber(v) ==
  CASE v.t = "undefined" -> [nan |-> TRUE, n |-> 0]
    [] v.t = "null" -> [nan |-> FALSE, n |-> 0]
    [] v.t = "boolean" -> [nan |-> FALSE, n |-> IF v.b THEN 10 ELSE 0]
    [] v.t = "number" -> [nan |-> FALSE, n |-> v.n]
    [] v.t = "string" ->
         IF v.s = "" THEN [nan |-> FALSE, n |-> 0]
         ELSE IF v.s = "2" THEN [nan |-> FALSE, n |-> 20]
         ELSE [nan |-> TRUE, n |-> 0]

JSLess(a, b) ==
  LET pa == ToPrimitive(a)
      pb == ToPrimitive(b)
  IN IF pa.t = "string" /\ pb.t = "string"
     THEN StrRank(pa.s) < StrRank(pb.s)
     ELSE LET na == ToNumber(pa)
              nb == ToNumber(pb)
          IN ~na.nan /\ ~nb.nan /\ na.n < nb.n

(***************************************************************************)
(* SECTION 3 of runner11.js: parameter validation                          *)
(***************************************************************************)
SECTIONS == <<"inputParameters", "analysisParameters", "advancedParameters">>

REQUIRED_KEYS ==
  [inputParameters |->
     <<"whichReduction", "bandName_reduction", "bandNameToFit", "binCuts",
       "modalityDictionary">>,
   analysisParameters |->
     <<"changeThreshold", "dropThresholdToDenoteChange",
       "gainThresholdToDenoteChange">>,
   advancedParameters |->
     <<"initializationApproach", "transitionCreationMethod">>]

MODALITY_KEYS == <<"bimodal", "constant", "linear", "trimodal", "unimodal">>

SENSORS == <<"L5dictionary", "L7dictionary", "L8dictionary", "S2dictionary", "S1dictionary">>

RECURSIVE Concat(_)
Concat(ss) == IF ss = <<>> THEN <<>> ELSE Head(ss) \o Concat(Tail(ss))

\* a loop over the required keys that stops one short of the last key
KeyErrors_SkipLast(sec, section) ==
  LET keys == REQUIRED_KEYS[section]
      checked == SubSeq(keys, 1, Len(keys) - 1)
      missing == SelectSeq(checked, LAMBDA k : IsUndefined(Get(sec, k)))
  IN SeqMap(LAMBDA k : MsgMissingKey(section, k), missing)

\* a presence test by truthiness instead of === undefined
KeyErrors_Falsy(sec, section) ==
  LET missing == SelectSeq(REQUIRED_KEYS[section], LAMBDA k : ~Truthy(Get(sec, k)))
  IN SeqMap(LAMBDA k : MsgMissingKey(section, k), missing)

\* for (const key of REQUIRED_KEYS[section]) if (data[section][key] === undefined) ...
KeyErrors(sec, section) ==
  LET missing == SelectSeq(REQUIRED_KEYS[section], LAMBDA k : IsUndefined(Get(sec, k)))
  IN SeqMap(LAMBDA k : MsgMissingKey(section, k), missing)

\* one pass of the loop over the three sections
SectionErrors(d, section) ==
  IF ~Truthy(Get(d, section))
  THEN <<MsgMissingSection(section)>>
  ELSE KeyErrors(Get(d, section), section)

\* if (ip.binCuts && !Array.isArray(ip.binCuts))
BinCutsErrors(d) ==
  LET ip == Get(d, "inputParameters")
  IN IF Truthy(ip) /\ Truthy(Get(ip, "binCuts")) /\ ~IsArray(Get(ip, "binCuts"))
     THEN <<MsgBinCuts>>
     ELSE <<>>

ModalityWarnings(ip) ==
  LET md == Get(ip, "modalityDictionary")
      missing == SelectSeq(MODALITY_KEYS, LAMBDA k : IsUndefined(Get(md, k)))
      hasModality == \E i \in DOMAIN MODALITY_KEYS : IsTrue(Get(md, MODALITY_KEYS[i]))
  IN IF ~Truthy(md) THEN <<>>
     ELSE SeqMap(LAMBDA k : MsgModalityMissing(k), missing)
          \o (IF hasModality THEN <<>> ELSE <<MsgNoModality>>)

SensorWarnings(ip, sensor) ==
  LET sd == Get(ip, sensor)
  IN IF ~Truthy(sd) THEN <<>>
     ELSE (IF ~Truthy(Get(sd, "yearsList")) \/ ~IsArray(Get(sd, "yearsList"))
           THEN <<MsgYearsList(sensor)>> ELSE <<>>)
          \o (IF IsUndefined(Get(sd, "firstDOY")) THEN <<MsgFirstDOY(sensor)>> ELSE <<>>)
          \o (IF IsUndefined(Get(sd, "lastDOY")) THEN <<MsgLastDOY(sensor)>> ELSE <<>>)

InputWarnings(d) ==
  LET ip == Get(d, "inputParameters")
  IN IF ~Truthy(ip) THEN <<>>
     ELSE ModalityWarnings(ip)
          \o Concat(SeqMap(LAMBDA s : SensorWarnings(ip, s), SENSORS))

\* a range check that also warns at the upper boundary
OutsideRange_HalfOpen(ct) == JSLess(ct, Num(0)) \/ ~JSLess(ct, Num(10))

\* ap.changeThreshold < 0 || ap.changeThreshold > 1: line 320
OutsideRange(ct) == JSLess(ct, Num(0)) \/ JSLess(Num(10), ct)

\* a comparison that also warns on equal thresholds
DropBelowGain_OrEqual(drop, gain) == ~JSLess(gain, drop)

\* ap.dropThresholdToDenoteChange < ap.gainThresholdToDenoteChange: line 326
DropBelowGain(drop, gain) == JSLess(drop, gain)

AnalysisWarnings(d) ==
  LET ap == Get(d, "analysisParameters")
      ct == Get(ap, "changeThreshold")
      drop == Get(ap, "dropThresholdToDenoteChange")
      gain == Get(ap, "gainThresholdToDenoteChange")
  IN IF ~Truthy(ap) THEN <<>>
     ELSE (IF ~IsUndefined(ct) /\ OutsideRange(ct)
           THEN <<MsgChangeThreshold(ct)>> ELSE <<>>)
          \o (IF ~IsUndefined(drop) /\ ~IsUndefined(gain) /\ DropBelowGain(drop, gain)
              THEN <<MsgDropGain>> ELSE <<>>)

ValidationErrors(d) ==
  Concat(SeqMap(LAMBDA s : SectionErrors(d, s), SECTIONS)) \o BinCutsErrors(d)

ValidationWarnings(d) == InputWarnings(d) \o AnalysisWarnings(d)

NotRun ==
  [ran |-> FALSE, threw |-> FALSE, errors |-> <<>>, warnings |-> <<>>, isValid |-> FALSE]

\* a validator for which a warning makes the bundle invalid
validateSidecar_WarningsCount(d) ==
  IF ~CanRead(d)
  THEN [ran |-> TRUE, threw |-> TRUE, errors |-> <<>>, warnings |-> <<>>,
        isValid |-> FALSE]
  ELSE [ran |-> TRUE, threw |-> FALSE, errors |-> ValidationErrors(d),
        warnings |-> ValidationWarnings(d),
        isValid |-> Len(ValidationErrors(d)) = 0 /\ Len(ValidationWarnings(d)) = 0]

\* validateSidecar(data, filePath).  The first statement that touches data is
\* the property read data[section] of the section loop, a TypeError when data
\* is null or undefined; every later read is of a value already found truthy.
validateSidecar(d) ==
  IF ~CanRead(d)
  THEN [ran |-> TRUE, threw |-> TRUE, errors |-> <<>>, warnings |-> <<>>,
        isValid |-> FALSE]
  ELSE [ran |-> TRUE, threw |-> FALSE, errors |-> ValidationErrors(d),
        warnings |-> ValidationWarnings(d),
        isValid |-> Len(ValidationErrors(d)) = 0]

(***************************************************************************)
(* Strings are sequences of characters, so that split, join, endsWith and  *)
(* path.join do to them what they do in the code.                          *)
(***************************************************************************)
StartsWith(s, p) == Len(s) >= Len(p) /\ SubSeq(s, 1, Len(p)) = p

EndsWith(s, p) == Len(s) >= Len(p) /\ SubSeq(s, Len(s) - Len(p) + 1, Len(s)) = p

\* s.split(c)
RECURSIVE Split(_, _)
Split(s, c) ==
  IF \A i \in DOMAIN s : s[i] # c THEN <<s>>
  ELSE LET i == CHOOSE k \in DOMAIN s : s[k] = c /\ \A j \in 1..(k - 1) : s[j] # c
       IN <<SubSeq(s, 1, i - 1)>> \o Split(SubSeq(s, i + 1, Len(s)), c)

\* parts.join(c)
RECURSIVE JoinWith(_, _)
JoinWith(parts, c) ==
  IF parts = <<>> THEN <<>>
  ELSE IF Len(parts) = 1 THEN parts[1]
  ELSE parts[1] \o <<c>> \o JoinWith(Tail(parts), c)

\* the segments of a path with "", "." dropped and ".." resolved (node's
\* normalizeString); above is the absolute path's root, which ".." cannot leave
RECURSIVE NormalizeSegments(_, _)
NormalizeSegments(segs, acc) ==
  IF segs = <<>> THEN acc
  ELSE LET g == Head(segs)
       IN IF g = <<>> \/ g = <<".">> THEN NormalizeSegments(Tail(segs), acc)
          ELSE IF g = <<".", ".">>
          THEN NormalizeSegments(Tail(segs),
                 IF acc = <<>> THEN acc ELSE SubSeq(acc, 1, Len(acc) - 1))
          ELSE NormalizeSegments(Tail(segs), Append(acc, g))

\* path.normalize of an absolute posix path: a trailing separator is kept
PathNormalize(p) ==
  LET body == JoinWith(NormalizeSegments(Split(p, "/"), <<>>), "/")
      trailing == Len(p) > 0 /\ p[Len(p)] = "/"
  IN <<"/">> \o body \o (IF body # <<>> /\ trailing THEN <<"/">> ELSE <<>>)

\* path.join(...args): the non-empty arguments joined by "/" and normalized
PathJoin(args) ==
  PathNormalize(JoinWith(SelectSeq(args, LAMBDA a : a # <<>>), "/"))

(***************************************************************************)
(* SECTION 4 of runner11.js: the module resolver                           *)
(***************************************************************************)
\* path.resolve(process.cwd(), moduleRoot): an absolute, normalized directory
ABS_MOD_ROOT == <<"/", "M">>

UsersPrefix == <<"u", "s", "e", "r", "s", "/">>

DotJs == <<".", "j", "s">>

\* importPath.startsWith('users/')
IsGeePath(importPath) == StartsWith(importPath, UsersPrefix)

\* a resolver that appends .js whatever the path ends in
LocalPath_AlwaysSuffix(importPath) ==
  LET parts == Split(importPath, ":")
      repoPath == parts[1]
      internalPath == IF Len(parts) >= 2 THEN parts[2] ELSE <<>>
      segs == Split(repoPath, "/")
      repoName == segs[Len(segs)]
  IN PathJoin(<<ABS_MOD_ROOT, repoName, internalPath>>) \o DotJs

\* lines 462-472: the local file an import identifier stands for
LocalPath(importPath) ==
  LET parts == Split(importPath, ":")
      repoPath == parts[1]
      internalPath == IF Len(parts) >= 2 THEN parts[2] ELSE <<>>
      segs == Split(repoPath, "/")
      repoName == segs[Len(segs)]
      joined == PathJoin(<<ABS_MOD_ROOT, repoName, internalPath>>)
  IN IF EndsWith(joined, DotJs) THEN joined ELSE joined \o DotJs

(***************************************************************************)
(* The parameter bundles the validator is run on: a complete bundle, as    *)
(* the README's example sidecar, with up to two places of it replaced.     *)
(***************************************************************************)
BinCutsArr == Arr(<<Num(-20), Num(0), Num(20)>>)

ModalityDict ==
  Obj([k \in Range(MODALITY_KEYS) |-> Bool(k = "linear")])

SensorDict ==
  Obj([yearsList |-> Arr(<<>>), firstDOY |-> Num(0), lastDOY |-> Num(10)])

BaseBundle ==
  Obj([inputParameters |->
         Obj([whichReduction |-> Str("x"), bandName_reduction |-> Str("x"),
              bandNameToFit |-> Str("x"), binCuts |-> BinCutsArr,
              modalityDictionary |-> ModalityDict]),
       analysisParameters |->
         Obj([changeThreshold |-> Num(4), dropThresholdToDenoteChange |-> Num(5),
              gainThresholdToDenoteChange |-> Num(3)]),
       advancedParameters |->
         Obj([initializationApproach |-> Str("x"),
              transitionCreationMethod |-> Str("x")])])

\* a complete bundle that gets a warning, and one that also lacks a required key
WarnOnly == SetPath(BaseBundle, <<"analysisParameters", "changeThreshold">>, Num(15))
WarnAndError == SetPath(WarnOnly, <<"advancedParameters", "transitionCreationMethod">>, Undef)

\* the values JSON.parse can put at a place (Undef: the key is absent)
JsonValues ==
  {Null, Bool(TRUE), Bool(FALSE), Num(-1), Num(0), Num(4), Num(10), Num(15),
   Str(""), Str("x"), Str("2"), Arr(<<>>), BinCutsArr, EmptyObj}

Leafs == JsonValues \cup {Undef}

SectionKeyPaths ==
  UNION {{<<SECTIONS[i], REQUIRED_KEYS[SECTIONS[i]][j]>> :
            j \in DOMAIN REQUIRED_KEYS[SECTIONS[i]]} : i \in DOMAIN SECTIONS}

Edits ==
  [p : {<<>>}, x : JsonValues]
    \cup [p : {<<SECTIONS[i]>> : i \in DOMAIN SECTIONS}, x : Leafs]
    \cup [p : SectionKeyPaths, x : Leafs]
    \cup [p : {<<"inputParameters", "modalityDictionary", MODALITY_KEYS[i]>> :
                 i \in DOMAIN MODALITY_KEYS},
          x : {Undef, Bool(TRUE), Bool(FALSE)}]
    \cup [p : {<<"inputParameters", "L8dictionary">>, <<"inputParameters", "S1dictionary">>},
          x : {SensorDict, EmptyObj, Num(4), Obj([yearsList |-> Num(4)])}]
    \cup [p : {<<"extraSection">>} \cup {<<SECTIONS[i], "extraKey">> : i \in DOMAIN SECTIONS},
          x : {Str("x"), Null, EmptyObj}]

ApplyEdit(v, e) == SetPath(v, e.p, e.x)

Bundles == {ApplyEdit(ApplyEdit(BaseBundle, e1), e2) : e1 \in Edits, e2 \in Edits}

(***************************************************************************)
(* Code.  The caller script and the module files are sequences of the      *)
(* statements that matter to the runner: a require of an import            *)
(* identifier, bare or inside the code's own try/catch, and a throw.       *)
(***************************************************************************)
Req(id, try) == [op |-> "require", id |-> id, try |-> try]
\* what a throw statement can throw: an Error object with a message, or any
\* other value (a string, null)
ErrorWith(msg) == [t |-> "error", message |-> msg]
Throw(v) == [op |-> "throw", id |-> <<>>, try |-> FALSE, val |-> v]
ThrowOp == Throw(ErrorWith(<<Lit("boom")>>))
ThrowString == Throw(Str("boom"))
ThrowNull == Throw(Null)

\* statements of a module's code that fill what it exports:
\*   exports.a = 1;  exports = {a: 1};  module.exports = {a: 1};
\*   module.exports = null
PutExports == [op |-> "put", id |-> <<>>, try |-> FALSE]
AssignExports == [op |-> "assignExports", id |-> <<>>, try |-> FALSE]
AssignModuleExports == [op |-> "assignModuleExports", id |-> <<>>, try |-> FALSE]
ClearModuleExports == [op |-> "clearModuleExports", id |-> <<>>, try |-> FALSE]
ExportsOps == {PutExports, AssignExports, AssignModuleExports, ClearModuleExports}

\* a statement of the caller script that asks for an export:
\*   Export.image.toDrive(config)  or  Export.image.toDrive(config).start()
\* possibly inside a try/catch
ExportOp(entry, try, start) ==
  [op |-> "export", id |-> entry, try |-> try, start |-> start]

\* the entry points of the Earth Engine Code Editor's Export namespace
ExportKinds == {"image", "table", "video"}
ExportTargets == {"toAsset", "toDrive", "toCloudStorage"}
ExportEntryPoints == {<<k, d>> : k \in ExportKinds, d \in ExportTargets}

\* the functions that the Export object of the sandbox holds: lines 598-660
ExportShim ==
  {<<"image", "toAsset">>, <<"image", "toDrive">>, <<"image", "toCloudStorage">>,
   <<"table", "toAsset">>, <<"table", "toDrive">>,
   <<"video", "toDrive">>}

ExportOps ==
  {ExportOp(e, try, start) : e \in ExportEntryPoints, try \in BOOLEAN, start \in BOOLEAN}

IdF == UsersPrefix \o <<"a", "/", "R", ":", "F">>
IdG == UsersPrefix \o <<"a", "/", "R", ":", "G">>
IdNative == <<"f", "s">>

\* the frames a run may nest before the engine's RangeError (stack overflow)
MaxDepth == 4
\* statements per module file, per caller script
MaxModLen == 1
MaxScriptLen == 2
\* pieces of an import identifier after users/a/
MaxIdLen == 5
\* *.json files in the batch directory
MaxFiles == 2

SeqsUpTo(S, n) == UNION {[1..k -> S] : k \in 0..n}

ModOps == {Req(IdF, TRUE), Req(IdG, FALSE), ThrowOp}
ScriptOps == {Req(IdF, FALSE), Req(IdF, TRUE), Req(IdNative, TRUE)}

\* statements of a module or of the caller script that write to a shim:
\*   Map.addLayer = 0  (a member of the object the global names),
\*   Map = {}          (the global of the context the code runs in)
AlterShim(name) == [op |-> "alterShim", id |-> name, try |-> FALSE]
RebindShim(name) == [op |-> "rebindShim", id |-> name, try |-> FALSE]
ShimNames == {"Map", "ui"}
ShimOps == {AlterShim(n) : n \in ShimNames} \cup {RebindShim(n) : n \in ShimNames}

\* createSharedShims (lines 341-445) builds Map and ui as object literals and
\* nothing calls Object.freeze on them: their members are writable
ShimFrozen(name) == FALSE

\* the members of a shim as createSharedShims made them, and after a write
ShimAsBuilt == [n \in ShimNames |-> "built"]

\* an object of the module's or the script's context, known by its identity
ExportsObject(n) == [t |-> "object", ref |-> n]

\* a running piece of code and its context: for a module the sandbox of lines
\* 482-496, where exports and module.exports start as the same empty object;
\* for the caller script the sandbox of createSandbox with its task list
NewFrame(kind, id, path, prog, obj) ==
  [kind |-> kind, id |-> id, path |-> path, prog |-> prog, pc |-> 1, obj |-> obj,
   me |-> ExportsObject(obj), ex |-> ExportsObject(obj), tasks |-> <<>>,
   \* what the globals Map and ui of this context name: the shared shim
   \* (sharedShims.Map, sharedShims.ui: lines 493-495, 595-596)
   globals |-> [n \in ShimNames |-> "shared"],
   \* in the script's frame: the shared shim objects of this experiment
   shims |-> ShimAsBuilt]

ScriptFrame(prog) == NewFrame("script", <<>>, <<>>, prog, 0)

Top == stack[Len(stack)]
AtEnd(f) == f.pc > Len(f.prog)
CurOp(f) == f.prog[f.pc]
Advance(stk) == [stk EXCEPT ![Len(stk)].pc = @ + 1]
Pop(stk) == SubSeq(stk, 1, Len(stk) - 1)

EmptyMap == [k \in {} |-> 0]
MapSet(m, k, v) == [j \in (DOMAIN m) \cup {k} |-> IF j = k THEN v ELSE m[j]]

LogEntry(ev, id, path, val) == [ev |-> ev, id |-> id, path |-> path, val |-> val]

\* Where an exception raised by the current statement of the top frame ends:
\* a require inside a try/catch of the code catches it and the code goes on;
\* otherwise the frame's code is abandoned (for a module, geeRequire's catch
\* rethrows it wrapped, lines 508-510) and its caller's require has thrown.
RECURSIVE Unwind(_)
Unwind(stk) ==
  IF stk = <<>> THEN <<>>
  ELSE LET f == stk[Len(stk)]
       IN IF ~AtEnd(f) /\ CurOp(f).op \in {"require", "export"} /\ CurOp(f).try
          THEN Advance(stk)
          ELSE Unwind(Pop(stk))

\* the geeRequire calls that Unwind makes fail, innermost first
\* err.message as the template literal of line 509 prints it: the message of
\* an Error object, "undefined" for another value that has properties; of
\* null and undefined it cannot be read
MessageOf(err) == IF err.t = "error" THEN err.message ELSE <<Lit("undefined")>>

MsgModuleNotFound(localPath, importPath) ==
  <<Lit("Module not found: "), Val(localPath),
    Lit(" Required from GEE path: "), Val(importPath)>>
MsgFailedToLoad(localPath, err) ==
  <<Lit("Failed to load module "), Val(localPath), Lit(": ")>> \o MessageOf(err)
MsgCannotReadMessage == <<Lit("Cannot read properties of null (reading 'message')")>>
MsgCannotFindModule(id) == <<Lit("Cannot find module "), Val(id)>>
MsgStackOverflow == <<Lit("Maximum call stack size exceeded")>>
MsgNotAFunction(name) == <<Lit(name), Lit(" is not a function")>>

\* the error that geeRequire's catch throws for the error it caught: line 509.
\* Reading err.message of a thrown null or undefined is itself a TypeError,
\* which leaves the catch block in place of the wrapped error.
Rethrown(localPath, err) ==
  IF CanRead(err) THEN ErrorWith(MsgFailedToLoad(localPath, err))
  ELSE ErrorWith(MsgCannotReadMessage)

\* the geeRequire calls that fail while err passes the frames, innermost first,
\* each with the error it throws
RECURSIVE Rethrows(_, _)
Rethrows(frames, err) ==
  IF frames = <<>> THEN <<>>
  ELSE LET f == Head(frames)
       IN IF f.kind = "module"
          THEN LET w == Rethrown(f.path, err)
               IN <<LogEntry("failed", f.id, f.path, w)>> \o Rethrows(Tail(frames), w)
          ELSE Rethrows(Tail(frames), err)

FailedLog(stk, new, err) ==
  LET n == Len(stk) - Len(new)
      popped == [j \in 1..n |-> stk[Len(stk) - j + 1]]
  IN Rethrows(popped, err)

(***************************************************************************)
(* Results and promises                                                    *)
(***************************************************************************)
Result(success, why, errors) ==
  [success |-> success, why |-> why, errors |-> errors]

\* { success: true, tasksSubmitted: tasks.length }: line 794
Submitted(n) ==
  [success |-> TRUE, why |-> "ok", errors |-> <<>>, tasksSubmitted |-> n]

NoResult == Result(FALSE, "", <<>>)

NoPromise == [state |-> "none", value |-> NoResult]
Pending == [state |-> "pending", value |-> NoResult]
Fulfilled(r) == [state |-> "fulfilled", value |-> r]
Rejected == [state |-> "rejected", value |-> NoResult]

Running == [exited |-> FALSE, code |-> 0]
Exited(c) == [exited |-> TRUE, code |-> c]

NoSummary == [shown |-> FALSE, total |-> 0, passed |-> 0, failed |-> 0]

Eff(e) == [e |-> e, exp |-> idx]

\* a sidecar file: unreadable, not JSON, or JSON text of a value
Unreadable == [readable |-> FALSE, parses |-> FALSE, value |-> Undef]
Malformed == [readable |-> TRUE, parses |-> FALSE, value |-> Undef]
Json(v) == [readable |-> TRUE, parses |-> TRUE, value |-> v]

FileKinds ==
  {Unreadable, Malformed, Json(Null), Json(Num(4)), Json(EmptyObj), Json(BaseBundle),
   Json(WarnOnly), Json(WarnAndError)}

(***************************************************************************)
(* The resolver and the code it runs (SECTION 4, and the vm.runInContext   *)
(* calls of geeRequire and runExperiment)                                  *)
(***************************************************************************)
\* the statement went well: the code goes on
Continue(entries) ==
  /\ stack' = Advance(stack)
  /\ rlog' = rlog \o entries
  /\ UNCHANGED <<promise, expPc>>

\* the statement threw.  An exception no code catches leaves the caller script:
\* runExperiment's catch resolves the experiment as failed (lines 796-800).
\* When what reaches that catch is null or undefined, err.stack (line 798)
\* throws inside the callback of ee.initialize: resolve is never called.
Raise(entry) ==
  LET new == Unwind(stack)
      failed == FailedLog(stack, new, entry.val)
      err == IF failed = <<>> THEN entry.val ELSE failed[Len(failed)].val
  IN /\ stack' = new
     /\ rlog' = rlog \o <<entry>> \o failed
     /\ IF new # <<>> THEN UNCHANGED <<promise, expPc>>
        ELSE IF CanRead(err)
        THEN /\ promise' = Fulfilled(Result(FALSE, "runtime", <<>>))
             /\ expPc' = "settled"
        ELSE /\ expPc' = "crashed"
             /\ UNCHANGED promise

\* a resolver that, like node's require, enters the exports object in the
\* cache before the module's code runs
CacheWhileExecuting_SetAtStart(cache, id, obj) == MapSet(cache, id, ExportsObject(obj))

\* the cache while the module's code runs: geeRequire writes nothing to it
\* between the miss at line 457 and moduleCache.set at line 505
CacheWhileExecuting(cache, id, obj) == cache

\* geeRequire(importPath), up to the point where the module's code starts
Require ==
  /\ expPc = "exec"
  /\ stack # <<>>
  /\ ~AtEnd(Top)
  /\ CurOp(Top).op = "require"
  /\ LET id == CurOp(Top).id
         path == LocalPath(id)
     IN \/ /\ ~IsGeePath(id)                      \* require(importPath) of node
           /\ \E ok \in BOOLEAN :
                IF ok THEN Continue(<<LogEntry("native", id, <<>>, 0)>>)
                      ELSE Raise(LogEntry("nativeError", id, <<>>,
                                          ErrorWith(MsgCannotFindModule(id))))
           /\ UNCHANGED <<moduleCache, nextObj>>
        \/ /\ IsGeePath(id)
           /\ id \in DOMAIN moduleCache           \* cache hit
           /\ Continue(<<LogEntry("hit", id, <<>>, moduleCache[id])>>)
           /\ UNCHANGED <<moduleCache, nextObj>>
        \/ /\ IsGeePath(id)
           /\ id \notin DOMAIN moduleCache
           /\ path \notin fs                      \* MODULE_NOT_FOUND
           /\ Raise(LogEntry("notfound", id, path,
                            ErrorWith(MsgModuleNotFound(path, id))))
           /\ UNCHANGED <<moduleCache, nextObj>>
        \/ /\ IsGeePath(id)
           /\ id \notin DOMAIN moduleCache
           /\ path \in fs
           /\ Len(stack) >= MaxDepth              \* RangeError: stack overflow
           /\ Raise(LogEntry("overflow", id, path, ErrorWith(MsgStackOverflow)))
           /\ UNCHANGED <<moduleCache, nextObj>>
        \/ /\ IsGeePath(id)
           /\ id \notin DOMAIN moduleCache
           /\ path \in fs
           /\ Len(stack) < MaxDepth               \* vm.runInContext(code, ...)
           /\ stack' = Append(stack, NewFrame("module", id, path, progs[path], nextObj))
           /\ nextObj' = nextObj + 1
           /\ rlog' = Append(rlog, LogEntry("exec", id, path, nextObj))
           /\ moduleCache' = CacheWhileExecuting(moduleCache, id, nextObj)
           /\ UNCHANGED <<promise, expPc>>
  /\ UNCHANGED <<valVars, envVars, mainPc, idx, results, summary, exitCode, effects>>

\* moduleSandbox.module.exports || moduleSandbox.exports: line 504
ModuleResult(f) == IF Truthy(f.me) THEN f.me ELSE f.ex

\* a statement of a module's code that fills what the module exports
ExportsStatement ==
  /\ expPc = "exec"
  /\ stack # <<>>
  /\ ~AtEnd(Top)
  /\ Top.kind = "module"
  /\ CurOp(Top).op \in {e.op : e \in ExportsOps}
  /\ LET n == Len(stack)
         new == ExportsObject(nextObj)
         populate(v) == Append(rlog, LogEntry("populate", Top.id, Top.path, v))
     IN CASE CurOp(Top).op = "put" ->
               /\ stack' = Advance(stack)
               /\ rlog' = populate(Top.ex)
               /\ UNCHANGED nextObj
          [] CurOp(Top).op = "assignExports" ->
               /\ stack' = Advance([stack EXCEPT ![n].ex = new])
               /\ rlog' = populate(new)
               /\ nextObj' = nextObj + 1
          [] CurOp(Top).op = "assignModuleExports" ->
               /\ stack' = Advance([stack EXCEPT ![n].me = new])
               /\ rlog' = populate(new)
               /\ nextObj' = nextObj + 1
          [] CurOp(Top).op = "clearModuleExports" ->
               /\ stack' = Advance([stack EXCEPT ![n].me = Null])
               /\ UNCHANGED <<rlog, nextObj>>
  /\ UNCHANGED <<moduleCache, valVars, envVars, runVars>>

\* a statement that writes to Map or ui, in a module or in the caller script
ShimStatement ==
  /\ expPc = "exec"
  /\ stack # <<>>
  /\ ~AtEnd(Top)
  /\ CurOp(Top).op \in {"alterShim", "rebindShim"}
  /\ LET n == Len(stack)
         name == CurOp(Top).id
     IN CASE CurOp(Top).op = "rebindShim" ->
               /\ stack' = Advance([stack EXCEPT ![n].globals[name] = "own"])
               /\ UNCHANGED rlog
          [] CurOp(Top).op = "alterShim" /\ Top.globals[name] = "own" ->
               /\ stack' = Advance(stack)
               /\ UNCHANGED rlog
          [] CurOp(Top).op = "alterShim" /\ Top.globals[name] = "shared" ->
               IF ShimFrozen(name)
               THEN /\ stack' = Advance(stack)
                    /\ UNCHANGED rlog
               ELSE /\ stack' = Advance([stack EXCEPT ![1].shims[name] = "altered"])
                    /\ rlog' = Append(rlog, LogEntry("altered", Top.id, Top.path, name))
  /\ UNCHANGED <<moduleCache, nextObj, valVars, envVars, runVars>>

\* the module's code ran to its end: lines 503-507
ModuleReturn ==
  /\ expPc = "exec"
  /\ stack # <<>>
  /\ Top.kind = "module"
  /\ AtEnd(Top)
  /\ moduleCache' = MapSet(moduleCache, Top.id, ModuleResult(Top))
  /\ rlog' = Append(rlog, LogEntry("loaded", Top.id, Top.path, ModuleResult(Top)))
  /\ stack' = Advance(Pop(stack))
  /\ UNCHANGED <<nextObj, valVars, envVars, runVars>>

\* a statement of the code throws
ThrowStep ==
  /\ expPc = "exec"
  /\ stack # <<>>
  /\ ~AtEnd(Top)
  /\ CurOp(Top).op = "throw"
  /\ Raise(LogEntry("throw", Top.id, Top.path, CurOp(Top).val))
  /\ UNCHANGED <<moduleCache, nextObj>>
  /\ UNCHANGED <<valVars, envVars, mainPc, idx, results, summary, exitCode, effects>>

\* Export.<kind>.<target>(config) in the caller script of a live run: the
\* function of the sandbox forwards to ee.batch.Export, records the task and
\* returns a handle whose start() starts it (lines 601-658); a name the
\* sandbox's Export object does not hold is undefined, and calling it is a
\* TypeError
ExportCall ==
  /\ expPc = "exec"
  /\ stack # <<>>
  /\ ~AtEnd(Top)
  /\ Top.kind = "script"
  /\ CurOp(Top).op = "export"
  /\ LET entry == CurOp(Top).id
         n == Len(stack)
         \* the config object of this call, told apart by the call's place
         task == [type |-> entry, config |-> Top.pc]
         created == LogEntry("task", entry, <<>>, Top.pc)
         started == LogEntry("start", entry, <<>>, Top.pc)
     IN IF entry \in ExportShim
        THEN /\ stack' = Advance([stack EXCEPT ![n].tasks = Append(@, task)])
             /\ rlog' = rlog \o (IF CurOp(Top).start THEN <<created, started>>
                                                    ELSE <<created>>)
             /\ UNCHANGED <<promise, expPc>>
        ELSE Raise(LogEntry("noEntryPoint", entry, <<>>,
                            ErrorWith(MsgNotAFunction(entry[2]))))
  /\ UNCHANGED <<moduleCache, nextObj>>
  /\ UNCHANGED <<valVars, envVars, mainPc, idx, results, summary, exitCode, effects>>

\* the caller script ran to its end: lines 779-794
ScriptReturn ==
  /\ expPc = "exec"
  /\ stack # <<>>
  /\ Top.kind = "script"
  /\ AtEnd(Top)
  /\ stack' = <<>>
  /\ promise' = Fulfilled(Submitted(Len(Top.tasks)))
  /\ expPc' = "settled"
  /\ UNCHANGED <<moduleCache, rlog, nextObj>>
  /\ UNCHANGED <<valVars, envVars, mainPc, idx, results, summary, exitCode, effects>>

NextResolve == Require \/ ModuleReturn \/ ThrowStep \/ ScriptReturn

(***************************************************************************)
(* SECTION 5: geometry reconstruction.  An object the runner builds or     *)
(* parses and later hands on by reference carries its identity in ref.     *)
(***************************************************************************)
\* ee.Geometry.Polygon(coords, null, geodesic): a new object at every call
Polygon(coords, geodesic, ref) ==
  [t |-> "polygon", coords |-> coords, geodesic |-> geodesic, ref |-> ref]

\* a reconstruction that takes no notice of defaultStudyAreaGeodesic
GeodesicArg_AlwaysFalse(ip) == Bool(FALSE)

\* ip.defaultStudyAreaGeodesic !== undefined ? ip.defaultStudyAreaGeodesic : false
GeodesicArg(ip) ==
  IF ~IsUndefined(Get(ip, "defaultStudyAreaGeodesic"))
  THEN Get(ip, "defaultStudyAreaGeodesic")
  ELSE Bool(FALSE)

\* a reconstruction that knows one sensor only
sensorDicts_L8Only == <<"L8dictionary">>

\* const sensorDicts: line 538
sensorDicts == <<"L8dictionary", "S2dictionary">>

\* a reconstruction that uses the coordinates up
ReconstructStudyArea_ConsumesCoordinates(ip, n) ==
  LET coords == Get(ip, "defaultStudyAreaCoordinates")
  IN IF Truthy(coords)
     THEN [ip |-> SetPath(SetPath(ip, <<"defaultStudyArea">>,
                                  Polygon(coords, Bool(FALSE), n)),
                          <<"defaultStudyAreaCoordinates">>, Undef),
           next |-> n + 1]
     ELSE [ip |-> ip, next |-> n]

\* lines 528-535, on ip and the next free object identity
ReconstructStudyArea(ip, n) ==
  LET coords == Get(ip, "defaultStudyAreaCoordinates")
  IN IF Truthy(coords)
     THEN [ip |-> SetPath(ip, <<"defaultStudyArea">>, Polygon(coords, GeodesicArg(ip), n)),
           next |-> n + 1]
     ELSE [ip |-> ip, next |-> n]

\* a sensor loop without the fallback to defaultStudyArea
ReconstructSensor_NoFallback(st, sensor) ==
  LET ip == st.ip
      ecp == Get(Get(ip, sensor), "expectationCollectionParameters")
      place == <<sensor, "expectationCollectionParameters", "AOI">>
  IN IF Truthy(Get(ecp, "AOICoordinates"))
     THEN [ip |-> SetPath(ip, place, Polygon(Get(ecp, "AOICoordinates"), Bool(FALSE), st.next)),
           next |-> st.next + 1]
     ELSE st

\* the body of the sensor loop: lines 540-550.  The assignment of AOI to an
\* expectationCollectionParameters that is a primitive does nothing.
ReconstructSensor(st, sensor) ==
  LET ip == st.ip
      ecp == Get(Get(ip, sensor), "expectationCollectionParameters")
      place == <<sensor, "expectationCollectionParameters", "AOI">>
  IN IF Truthy(Get(ecp, "AOICoordinates"))
     THEN [ip |-> SetPath(ip, place, Polygon(Get(ecp, "AOICoordinates"), Bool(FALSE), st.next)),
           next |-> st.next + 1]
     ELSE IF Truthy(Get(ip, "defaultStudyArea")) /\ Truthy(ecp) /\ ecp.t = "object"
     THEN [ip |-> SetPath(ip, place, Get(ip, "defaultStudyArea")), next |-> st.next]
     ELSE st

RECURSIVE ReconstructSensors(_, _)
ReconstructSensors(st, sensors) ==
  IF sensors = <<>> THEN st
  ELSE ReconstructSensors(ReconstructSensor(st, Head(sensors)), Tail(sensors))

\* reconstructGeometries(params), with the next free object identity n
reconstructGeometries(params, n) ==
  IF ~CanRead(params)
  THEN [threw |-> TRUE, value |-> params, next |-> n]
  ELSE IF ~Truthy(Get(params, "inputParameters"))
  THEN [threw |-> FALSE, value |-> params, next |-> n]
  ELSE LET r == ReconstructSensors(
                  ReconstructStudyArea(Get(params, "inputParameters"), n), sensorDicts)
       IN [threw |-> FALSE, value |-> SetPath(params, <<"inputParameters">>, r.ip),
           next |-> r.next]

(***************************************************************************)
(* SECTION 7: runExperiment                                                *)
(***************************************************************************)
\* a run that takes no notice of --dry-run
DryRunStops_Never == FALSE

\* if (config.dryRun): line 731
DryRunStops == cfg.dryRun

\* Logger.log(level, message): the message is written to the log file and to
\* console.error, whatever config.quiet and config.silent are (lines 84-99)
LoggerLog(level, quiet, silent) == TRUE

\* a run that goes on whatever the validation found
HasErrors_Never(v) == FALSE

\* if (validation.errors.length > 0): line 699
HasErrors(v) == Len(v.errors) > 0

\* a run that takes every key file for present
KeyFileExists_Always == TRUE

\* fs.existsSync(keyPath): line 742
KeyFileExists == keyFile # "missing"

\* The synchronous part of runExperiment(userScript, moduleRoot, sidecarPath):
\* all of it up to the call of ee.data.authenticateViaPrivateKey.  An async
\* function that throws returns a rejected promise.
RunExperimentSync ==
  /\ expPc = "call"
  /\ LET file == files[idx]
         v == validateSidecar(file.value)
         settle(p, es) ==
           /\ promise' = p
           /\ expPc' = "settled"
           /\ effects' = effects \o SeqMap(Eff, es)
     IN IF ~file.readable \/ ~file.parses
        THEN /\ settle(Fulfilled(Result(FALSE, "parse", <<>>)), <<"readSidecar">>)
             /\ data' = Undef
             /\ vres' = NotRun
        ELSE /\ data' = file.value
             /\ vres' = v
             /\ IF v.threw
                THEN settle(Rejected, <<"readSidecar", "validate">>)
                ELSE IF HasErrors(v)
                THEN settle(Fulfilled(Result(FALSE, "validation", v.errors)),
                            <<"readSidecar", "validate", "logErrors">>)
                ELSE LET pre == <<"readSidecar", "validate">>
                                \o (IF /\ Len(v.warnings) > 0
                                       /\ \A q, s \in BOOLEAN : LoggerLog("warning", q, s)
                                    THEN <<"logWarnings">> ELSE <<>>)
                                \o <<"checkScript">>
                     IN IF ~scriptExists
                        THEN settle(Fulfilled(Result(FALSE, "noScript", <<>>)), pre)
                        ELSE IF DryRunStops
                        THEN settle(Fulfilled(Result(TRUE, "dryRun", <<>>)), pre)
                        ELSE IF ~KeyFileExists
                        THEN settle(Fulfilled(Result(FALSE, "noKey", <<>>)),
                                    pre \o <<"checkKey">>)
                        ELSE IF keyFile = "invalid"
                        THEN settle(Rejected, pre \o <<"checkKey", "readKey">>)
                        ELSE /\ promise' = Pending
                             /\ expPc' = "waitAuth"
                             /\ effects' = effects \o SeqMap(Eff,
                                  pre \o <<"checkKey", "readKey", "authenticate">>)
  /\ UNCHANGED <<envVars, mainPc, idx, results, summary, exitCode, resVars>>

\* the success callback of authenticateViaPrivateKey: lines 753-756
AuthSuccess ==
  /\ expPc = "waitAuth"
  /\ expPc' = "waitInit"
  /\ effects' = Append(effects, Eff("initialize"))
  /\ UNCHANGED <<valVars, envVars, mainPc, idx, results, summary, promise, exitCode, resVars>>

\* a failure callback that lets the run go on to ee.initialize
AuthFailure_GoesOn ==
  /\ expPc = "waitAuth"
  /\ expPc' = "waitInit"
  /\ promise' = Fulfilled(Result(FALSE, "auth", <<>>))
  /\ effects' = Append(effects, Eff("initialize"))
  /\ UNCHANGED <<valVars, envVars, mainPc, idx, results, summary, exitCode, resVars>>

\* its failure callback: lines 805-808
AuthFailure ==
  /\ expPc = "waitAuth"
  /\ expPc' = "settled"
  /\ promise' = Fulfilled(Result(FALSE, "auth", <<>>))
  /\ UNCHANGED <<valVars, envVars, mainPc, idx, results, summary, exitCode, effects, resVars>>

\* the success callback of ee.initialize, up to the start of the caller
\* script's code: lines 756-777
InitSuccess ==
  /\ expPc = "waitInit"
  /\ LET rec == reconstructGeometries(data, nextObj)
     IN IF rec.threw
        THEN /\ expPc' = "settled"
             /\ promise' = Fulfilled(Result(FALSE, "runtime", <<>>))
             /\ UNCHANGED <<data, stack, nextObj, effects>>
        ELSE /\ expPc' = "exec"
             /\ data' = rec.value
             /\ nextObj' = rec.next
             /\ stack' = <<ScriptFrame(script)>>
             /\ effects' = Append(effects, Eff("execScript"))
             /\ UNCHANGED promise
  /\ UNCHANGED <<vres, envVars, mainPc, idx, results, summary, exitCode>>
  /\ UNCHANGED <<moduleCache, rlog>>

\* its failure callback: lines 801-804
InitFailure ==
  /\ expPc = "waitInit"
  /\ expPc' = "settled"
  /\ promise' = Fulfilled(Result(FALSE, "init", <<>>))
  /\ UNCHANGED <<valVars, envVars, mainPc, idx, results, summary, exitCode, effects, resVars>>

(***************************************************************************)
(* SECTIONS 8 and 9: runBatch and the main entry point                     *)
(***************************************************************************)
Passed(rs) == Cardinality({i \in DOMAIN rs : rs[i].result.success})
Failed(rs) == Cardinality({i \in DOMAIN rs : ~rs[i].result.success})

\* main up to its first await.  A batch over a directory without *.json files
\* returns at once (lines 824-827) and the process ends on its own, with code 0.
MainStart ==
  /\ mainPc = "start"
  /\ IF cfg.batch /\ Len(files) = 0
     THEN /\ mainPc' = "done"
          /\ exitCode' = Exited(0)
          /\ UNCHANGED <<idx, expPc>>
     ELSE /\ mainPc' = "await"
          /\ idx' = 1
          /\ expPc' = "call"
          /\ UNCHANGED exitCode
  /\ UNCHANGED <<valVars, envVars, results, summary, promise, effects, resVars>>

\* main after await runExperiment(...): lines 899-906
SingleResume ==
  /\ mainPc = "await"
  /\ ~cfg.batch
  /\ expPc = "settled"
  /\ mainPc' = "done"
  /\ exitCode' = IF promise.state = "fulfilled" /\ promise.value.success
                 THEN Exited(0) ELSE Exited(1)
  /\ UNCHANGED <<valVars, envVars, idx, results, summary, expPc, promise, effects, resVars>>

\* a loop that keeps what the experiment loaded
ClearedCache_Kept == moduleCache

\* moduleCache.clear(): line 847
ClearedCache == EmptyMap

\* a loop that goes on while the experiment still waits for its callbacks
Awaited_NoWait == expPc \in {"settled", "waitAuth"}

\* await runExperiment(...): runBatch goes on when the promise has settled
\* (line 840), whatever config.parallel is
Awaited == expPc = "settled"

\* runBatch after await runExperiment(...): the rest of the loop body, then
\* the next experiment or the summary (lines 840-866).  A rejected promise
\* makes the await throw: runBatch is left and main's catch exits with 1.
BatchResume ==
  /\ mainPc = "await"
  /\ cfg.batch
  /\ Awaited
  /\ IF promise.state = "rejected"
     THEN /\ mainPc' = "done"
          /\ exitCode' = Exited(1)
          /\ UNCHANGED <<idx, results, summary, expPc, promise, moduleCache, rlog>>
     ELSE LET rs == Append(results, [file |-> idx, result |-> promise.value])
          IN /\ results' = rs
             /\ moduleCache' = ClearedCache
             /\ rlog' = Append(rlog, LogEntry("clear", <<>>, <<>>, 0))
             /\ IF idx < Len(files)
                THEN /\ idx' = idx + 1
                     /\ expPc' = "call"
                     /\ promise' = NoPromise
                     /\ UNCHANGED <<mainPc, summary, exitCode>>
                ELSE /\ mainPc' = "done"
                     /\ summary' = [shown |-> TRUE, total |-> Len(rs),
                                    passed |-> Passed(rs), failed |-> Failed(rs)]
                     /\ exitCode' = Exited(0)
                     /\ UNCHANGED <<idx, expPc, promise>>
  /\ UNCHANGED <<valVars, envVars, effects, stack, nextObj>>

Next ==
  \/ MainStart
  \/ RunExperimentSync
  \/ AuthSuccess
  \/ AuthFailure
  \/ InitSuccess
  \/ InitFailure
  \/ Require
  \/ ModuleReturn
  \/ ThrowStep
  \/ ScriptReturn
  \/ ExportsStatement
  \/ ExportCall
  \/ ShimStatement
  \/ SingleResume
  \/ BatchResume

(***************************************************************************)
(* Initial states                                                          *)
(***************************************************************************)
ResIdle ==
  /\ moduleCache = EmptyMap
  /\ stack = <<>>
  /\ rlog = <<>>
  /\ nextObj = 1

RunIdle ==
  /\ mainPc = "start"
  /\ idx = 0
  /\ results = <<>>
  /\ summary = NoSummary
  /\ expPc = "idle"
  /\ promise = NoPromise
  /\ exitCode = Running
  /\ effects = <<>>

\* the config object of parseArgs before any option is read (lines 184-195),
\* as far as runExperiment, runBatch and main read it
ConfigDefaults == [dryRun |-> FALSE, batch |-> FALSE, parallel |-> 1]

\* the values --parallel=N can leave in config.parallel: line 207
ParallelValues == {1, 2}

\* the process as node starts it
Init ==
  /\ data = Undef
  /\ vres = NotRun
  /\ cfg \in [dryRun : BOOLEAN, batch : BOOLEAN, parallel : ParallelValues]
  /\ files \in (IF cfg.batch THEN SeqsUpTo(FileKinds, MaxFiles) ELSE [1..1 -> FileKinds])
  /\ scriptExists \in BOOLEAN
  /\ keyFile \in {"missing", "invalid", "ok"}
  /\ fs = {LocalPath(IdF)}
  /\ progs = [p \in fs |-> <<PutExports, AlterShim("Map")>>]
  /\ script \in {<<Req(IdF, FALSE), ExportOp(<<"image", "toDrive">>, FALSE, TRUE)>>,
                 <<Req(IdF, FALSE), ThrowOp>>,
                 <<Req(IdF, FALSE), Req(IdF, FALSE)>>}
  /\ RunIdle
  /\ ResIdle

Spec == Init /\ [][Next]_vars

\* live runs, single and batch, of a caller script that imports a module that
\* loads and one that throws, and then asks for an export
LiveKinds == {Malformed, Json(Null), Json(BaseBundle)}

InitLive ==
  /\ data = Undef
  /\ vres = NotRun
  /\ cfg \in [dryRun : {FALSE}, batch : BOOLEAN, parallel : {1}]
  /\ files \in (IF cfg.batch THEN SeqsUpTo(LiveKinds, MaxFiles) ELSE [1..1 -> LiveKinds])
  /\ scriptExists = TRUE
  /\ keyFile \in {"invalid", "ok"}
  /\ fs = {LocalPath(IdF), LocalPath(IdG)}
  /\ progs = [p \in fs |-> IF p = LocalPath(IdF) THEN <<PutExports, AlterShim("Map")>>
                                                ELSE <<ThrowOp>>]
  /\ script = <<Req(IdF, FALSE), Req(IdG, TRUE), ExportOp(<<"image", "toDrive">>, FALSE, TRUE)>>
  /\ RunIdle
  /\ ResIdle

\* the code is at a call of require: geeRequire is entered (line 449)
RequireReady ==
  /\ expPc = "exec"
  /\ stack # <<>>
  /\ ~AtEnd(Top)
  /\ CurOp(Top).op = "require"

\* every step of the program but the call of require
NextButRequire ==
  \/ MainStart
  \/ RunExperimentSync
  \/ AuthSuccess
  \/ AuthFailure
  \/ InitSuccess
  \/ InitFailure
  \/ ModuleReturn
  \/ ThrowStep
  \/ ScriptReturn
  \/ ExportsStatement
  \/ ExportCall
  \/ ShimStatement
  \/ SingleResume
  \/ BatchResume

\* node runs every continuation that is ready, and the Earth Engine client is
\* taken to call one callback of each request made to it: no step that can be
\* taken is put off for ever.  (The second conjunct is weak fairness of
\* Require, which can be taken whenever the code is at a call of require.)
SpecLive ==
  /\ InitLive
  /\ [][Next]_vars
  /\ WF_vars(NextButRequire)
  /\ ([]<>~RequireReady \/ []<><<Require>>_vars)

\* a single live experiment at the moment ee.initialize has called back and
\* the caller script starts
ExecutingScript ==
  /\ data = BaseBundle
  /\ vres = validateSidecar(BaseBundle)
  /\ cfg = ConfigDefaults
  /\ files = <<Json(BaseBundle)>>
  /\ scriptExists = TRUE
  /\ keyFile = "ok"
  /\ mainPc = "await"
  /\ idx = 1
  /\ results = <<>>
  /\ summary = NoSummary
  /\ expPc = "exec"
  /\ promise = Pending
  /\ exitCode = Running
  /\ effects = SeqMap(LAMBDA e : [e |-> e, exp |-> 1],
                      <<"readSidecar", "validate", "checkScript", "checkKey",
                        "readKey", "authenticate", "initialize", "execScript">>)
  /\ moduleCache = EmptyMap
  /\ stack = <<ScriptFrame(script)>>
  /\ rlog = <<>>
  /\ nextObj = 1

\* module files that import each other, under a script that imports them
InitResolve ==
  /\ fs \in SUBSET {LocalPath(IdF), LocalPath(IdG)}
  /\ progs \in [fs -> SeqsUpTo(ModOps, MaxModLen)]
  /\ script \in SeqsUpTo(ScriptOps, MaxScriptLen)
  /\ ExecutingScript

SpecResolve == InitResolve /\ [][NextResolve]_vars

\* statements per module file that fill its exports
MaxExportsLen == 2

\* one module file whose code fills its exports in some way, imported twice
InitModule ==
  /\ fs = {LocalPath(IdF)}
  /\ progs \in [fs -> SeqsUpTo(ExportsOps \cup {ThrowOp, ThrowString, ThrowNull},
                                MaxExportsLen)]
  /\ script = <<Req(IdF, TRUE), Req(IdF, TRUE)>>
  /\ ExecutingScript

NextModule == NextResolve \/ ExportsStatement

SpecModule == InitModule /\ [][NextModule]_vars

\* statements per module file that imports itself
MaxCycleLen == 2

CycleOps == {Req(IdF, TRUE), Req(IdF, FALSE), ThrowOp}

\* one module file that imports itself, imported twice by the caller script
InitCycle ==
  /\ fs = {LocalPath(IdF)}
  /\ progs \in [fs -> SeqsUpTo(CycleOps, MaxCycleLen)]
  /\ script = <<Req(IdF, TRUE), Req(IdF, TRUE)>>
  /\ ExecutingScript

SpecCycle == InitCycle /\ [][NextResolve]_vars

\* a caller script made of Export calls
InitExport ==
  /\ fs = {}
  /\ progs = [p \in fs |-> <<>>]
  /\ script \in SeqsUpTo(ExportOps, MaxScriptLen)
  /\ ExecutingScript

NextExport == ExportCall \/ ScriptReturn

SpecExport == InitExport /\ [][NextExport]_vars

\* a module and a caller script that write to the shims
InitShims ==
  /\ fs = {LocalPath(IdF)}
  /\ progs \in [fs -> SeqsUpTo(ShimOps, MaxExportsLen)]
  /\ \E s \in SeqsUpTo(ShimOps, MaxModLen) : script = <<Req(IdF, FALSE)>> \o s
  /\ ExecutingScript

NextShims == Require \/ ModuleReturn \/ ShimStatement \/ ScriptReturn

SpecShims == InitShims /\ [][NextShims]_vars

\* the import identifiers users/a/<pieces>, and one that is not a GEE path
IdPieces == {<<"R">>, <<"/">>, <<":">>, <<".">>, DotJs}

GenIds ==
  {UsersPrefix \o <<"a", "/">> \o Concat(ps) : ps \in SeqsUpTo(IdPieces, MaxIdLen)}
    \cup {IdNative}

\* one import of one identifier, whose file may exist and whose code may throw
InitPath ==
  /\ \E id \in GenIds :
       /\ script = <<Req(id, TRUE)>>
       /\ fs \in SUBSET {LocalPath(id)}
  /\ progs \in [fs -> {<<>>, <<ThrowOp>>}]
  /\ ExecutingScript

SpecPath == InitPath /\ [][NextResolve]_vars

\* the parameter values the reconstruction looks at
CoordsA == Arr(<<Num(0), Num(10)>>)
CoordsB == Arr(<<Num(10), Num(0)>>)

\* a defaultStudyArea object that JSON.parse built
ParsedArea == [t |-> "object", f |-> [type |-> Str("Polygon")], ref |-> 0]

Ecp(v) == Obj([expectationCollectionParameters |-> v])

SensorShapes ==
  {Undef, EmptyObj, Ecp(EmptyObj), Ecp(Num(4)), Ecp(Obj([AOICoordinates |-> CoordsB])),
   Ecp(Obj([AOI |-> Str("x")]))}

\* complete bundles that carry study-area and sensor parameters
GeoBundles ==
  {SetPath(BaseBundle, <<"inputParameters">>,
     Obj([k \in DOMAIN BaseBundle.f.inputParameters.f \cup
                 {"defaultStudyAreaCoordinates", "defaultStudyAreaGeodesic",
                  "defaultStudyArea", "L8dictionary", "S2dictionary"} |->
            CASE k = "defaultStudyAreaCoordinates" -> c
              [] k = "defaultStudyAreaGeodesic" -> g
              [] k = "defaultStudyArea" -> a
              [] k = "L8dictionary" -> l8
              [] k = "S2dictionary" -> s2
              [] OTHER -> BaseBundle.f.inputParameters.f[k]])) :
     c \in {Undef, Null, CoordsA}, g \in {Undef, Bool(TRUE), Bool(FALSE)},
     a \in {Undef, Null, ParsedArea}, l8 \in SensorShapes, s2 \in SensorShapes}

\* a single live experiment on such a bundle, at the moment the callback of
\* ee.initialize is due
InitGeometry ==
  /\ data \in GeoBundles
  /\ vres = validateSidecar(data)
  /\ cfg = ConfigDefaults
  /\ files = <<Json(data)>>
  /\ scriptExists = TRUE
  /\ keyFile = "ok"
  /\ fs = {}
  /\ progs = EmptyMap
  /\ script = <<>>
  /\ mainPc = "await"
  /\ idx = 1
  /\ results = <<>>
  /\ summary = NoSummary
  /\ expPc = "waitInit"
  /\ promise = Pending
  /\ exitCode = Running
  /\ effects = SeqMap(Eff, <<"readSidecar", "validate", "checkScript", "checkKey",
                             "readKey", "authenticate", "initialize">>)
  /\ ResIdle

NextGeometry == InitSuccess \/ ScriptReturn

SpecGeometry == InitGeometry /\ [][NextGeometry]_vars

\* the exported validateSidecar called on a bundle
InitValidate ==
  /\ data \in Bundles
  /\ vres = NotRun
  /\ cfg = ConfigDefaults
  /\ files = <<>>
  /\ scriptExists = FALSE
  /\ keyFile = "missing"
  /\ fs = {}
  /\ progs = EmptyMap
  /\ script = <<>>
  /\ RunIdle
  /\ ResIdle

\* a call validateSidecar(data)
Validate ==
  /\ ~vres.ran
  /\ vres' = validateSidecar(data)
  /\ UNCHANGED <<data, envVars, runVars, resVars>>

NextValidate == Validate

SpecValidate == InitValidate /\ [][NextValidate]_vars

(***************************************************************************)
(* Claims about validateSidecar, checked under SpecValidate                *)
(***************************************************************************)
\* the required keys of the table that the bundle d does not carry
AbsentRequired(d) ==
  {p \in SectionKeyPaths : IsUndefined(Get(Get(d, p[1]), p[2]))}

BinCutsOf(d) == Get(Get(d, "inputParameters"), "binCuts")

ErrorNames(errors, a, b) ==
  \E i \in DOMAIN errors : Mentions(errors[i], a) /\ Mentions(errors[i], b)

\* C1: a bundle with its three sections and exactly one required key absent
\* gets an error that names that section and that key, and isValid is false.
C1_MissingKeyReported ==
  (vres.ran /\ CanRead(data) /\ Cardinality(AbsentRequired(data)) = 1) =>
     /\ ~vres.threw
     /\ ~vres.isValid
     /\ \A p \in AbsentRequired(data) : ErrorNames(vres.errors, p[1], p[2])

C1_Witness ==
  /\ vres.ran
  /\ CanRead(data)
  /\ AbsentRequired(data) = {<<"advancedParameters", "transitionCreationMethod">>}
  /\ Len(vres.errors) = 1
  /\ ~vres.isValid

\* C2: a binCuts that is present and is not an array always gets an error
\* that mentions binCuts, and isValid is false.
C2_NonArrayBinCutsRejected ==
  (vres.ran /\ CanRead(data) /\ ~IsUndefined(BinCutsOf(data)) /\ ~IsArray(BinCutsOf(data))) =>
     /\ \E i \in DOMAIN vres.errors : Mentions(vres.errors[i], "binCuts")
     /\ ~vres.isValid

\* C3: validateSidecar returns a result for every input value; it never throws.
C3_ValidateNeverThrows == vres.ran => ~vres.threw

\* C4: a bundle that carries every required key, binCuts being an array, is
\* valid whatever else it carries.
C4_ExtrasAccepted ==
  (vres.ran /\ CanRead(data) /\ AbsentRequired(data) = {} /\ IsArray(BinCutsOf(data))) =>
     /\ ~vres.threw
     /\ vres.isValid

C4_Witness ==
  /\ vres.ran
  /\ CanRead(data)
  /\ AbsentRequired(data) = {}
  /\ IsArray(BinCutsOf(data))
  /\ ~IsUndefined(Get(data, "extraSection"))
  /\ ~IsUndefined(Get(Get(data, "inputParameters"), "extraKey"))
  /\ vres.isValid

(***************************************************************************)
(* Claims about the module resolver                                        *)
(***************************************************************************)
\* what the geeRequire calls did since the module cache was last cleared
SinceClear ==
  LET clears == {i \in DOMAIN rlog : rlog[i].ev = "clear"}
      from == IF clears = {} THEN 1
              ELSE 1 + CHOOSE i \in clears : \A j \in clears : j <= i
  IN SubSeq(rlog, from, Len(rlog))

\* the executions of the code of id that ran to the end, in order
Loaded(id) == SelectSeq(SinceClear, LAMBDA e : e.ev = "loaded" /\ e.id = id)

\* C5: between two clears of the cache the code of a module runs once per
\* import identifier, and every later resolve of the identifier returns the
\* value that run cached.
C5_ExecutedOncePerIdentifier ==
  \A id \in {IdF, IdG} :
    /\ Len(Loaded(id)) <= 1
    /\ \A i \in DOMAIN SinceClear :
         (SinceClear[i].ev = "hit" /\ SinceClear[i].id = id) =>
            SinceClear[i].val = Loaded(id)[1].val

\* the identifier users/<account>/<repo>:<internalPath> taken apart
AfterPrefix(id) == SubSeq(id, Len(UsersPrefix) + 1, Len(id))
IndexOf(s, c) == CHOOSE k \in DOMAIN s : s[k] = c /\ \A j \in 1..(k - 1) : s[j] # c
Has(s, c) == \E k \in DOMAIN s : s[k] = c
RepoAndPath(id) ==
  LET r == AfterPrefix(id) IN SubSeq(r, IndexOf(r, "/") + 1, Len(r))
AccountOf(id) ==
  LET r == AfterPrefix(id) IN SubSeq(r, 1, IndexOf(r, "/") - 1)
RepoOf(id) ==
  LET r == RepoAndPath(id) IN SubSeq(r, 1, IndexOf(r, ":") - 1)
InternalPathOf(id) ==
  LET r == RepoAndPath(id) IN SubSeq(r, IndexOf(r, ":") + 1, Len(r))

PlainName(n) == n # <<>> /\ n # <<".">> /\ n # <<".", ".">> /\ ~Has(n, "/") /\ ~Has(n, ":")

\* an identifier of the shape the claim is about: an account, a repository
\* name and a relative path of plain names
ClaimShape(id) ==
  /\ IsGeePath(id)
  /\ Has(AfterPrefix(id), "/")
  /\ Has(RepoAndPath(id), ":")
  /\ PlainName(AccountOf(id))
  /\ PlainName(RepoOf(id))
  /\ LET segs == Split(InternalPathOf(id), "/")
     IN \A i \in DOMAIN segs : PlainName(segs[i])

\* M/<repo>/<internalPath>.js, the suffix only where the path does not end in it
ClaimedPath(id) ==
  ABS_MOD_ROOT \o <<"/">> \o RepoOf(id) \o <<"/">> \o InternalPathOf(id)
    \o (IF EndsWith(InternalPathOf(id), DotJs) THEN <<>> ELSE DotJs)

LogHas(ev) == \E i \in DOMAIN rlog : rlog[i].ev = ev

\* C6 as stated: the resolve looks up M/<repo>/<internalPath>.js and succeeds
\* if and only if that file exists.
C6_SucceedsIffFileExists ==
  LET id == script[1].id
  IN (expPc = "settled" /\ ClaimShape(id)) =>
       /\ \A i \in DOMAIN rlog :
            rlog[i].ev \in {"notfound", "exec"} => rlog[i].path = ClaimedPath(id)
       /\ LogHas("loaded") <=> ClaimedPath(id) \in fs

\* C6 as amended: the resolve looks up M/<repo>/<internalPath>.js; it fails as
\* not found if and only if that file does not exist, and it succeeds if and
\* only if the file exists and its code runs without throwing.
C6_LooksUpClaimedPath ==
  LET id == script[1].id
  IN (expPc = "settled" /\ ClaimShape(id)) =>
       /\ LogHas("notfound") \/ LogHas("exec")
       /\ \A i \in DOMAIN rlog :
            rlog[i].ev \in {"notfound", "exec"} => rlog[i].path = ClaimedPath(id)
       /\ LogHas("notfound") <=> ClaimedPath(id) \notin fs
       /\ LogHas("loaded") <=>
            (ClaimedPath(id) \in fs /\ progs[ClaimedPath(id)] = <<>>)

C6_Witness ==
  /\ expPc = "settled"
  /\ script # <<>>
  /\ ClaimShape(script[1].id)
  /\ Has(InternalPathOf(script[1].id), "/")
  /\ EndsWith(script[1].id, DotJs)
  /\ LogHas("loaded")

(***************************************************************************)
(* Claims about runExperiment, runBatch and the exit code                  *)
(***************************************************************************)
\* what the current experiment did to the outside
EffectsOfCurrent == {effects[i].e : i \in {j \in DOMAIN effects : effects[j].exp = idx}}

RemoteEffects == {"checkKey", "readKey", "authenticate", "initialize", "execScript"}

\* the current runExperiment call has returned, after a validation without errors
DryRunOfValidBundle ==
  /\ cfg.dryRun
  /\ expPc = "settled"
  /\ vres.ran
  /\ ~vres.threw
  /\ Len(vres.errors) = 0

NothingRemote ==
  /\ EffectsOfCurrent \cap RemoteEffects = {}
  /\ stack = <<>>
  /\ \A i \in DOMAIN rlog : rlog[i].ev = "clear"

\* C7 as stated: a dry run of a bundle without validation errors ends before
\* the key file is read or any remote call is made, and reports success.
C7_DryRunReportsSuccess ==
  DryRunOfValidBundle =>
    /\ NothingRemote
    /\ promise.state = "fulfilled"
    /\ promise.value.success

\* C7 as amended: such a dry run ends before the key file is read or any remote
\* call is made, and reports success if and only if the caller script file exists.
C7_DryRunStopsBeforeRemote ==
  DryRunOfValidBundle =>
    /\ NothingRemote
    /\ promise.state = "fulfilled"
    /\ promise.value.success <=> scriptExists

C7_Witness ==
  /\ DryRunOfValidBundle
  /\ scriptExists
  /\ keyFile = "ok"
  /\ promise.value.success
  /\ promise.value.why = "dryRun"

\* C8: a batch over N files runs every one of them, records one result per
\* file, and the passed and failed counts of its summary sum to N.
C8_BatchRunsEveryFile ==
  (cfg.batch /\ mainPc = "done" /\ Len(files) > 0) =>
     /\ Len(results) = Len(files)
     /\ \A i \in DOMAIN results : results[i].file = i
     /\ summary.shown
     /\ summary.passed + summary.failed = Len(files)

\* C9: in a batch no failure of one experiment stops the loop: every
\* experiment's call ends in a result, never in an exception that leaves
\* runBatch, and the summary is reached.
C9_NoFailureStopsBatch ==
  cfg.batch =>
    /\ expPc = "settled" => promise.state = "fulfilled"
    /\ (mainPc = "done" /\ Len(files) > 0) => summary.shown

\* every experiment the process ran succeeded
AllSucceeded ==
  /\ promise.state # "rejected"
  /\ IF cfg.batch
     THEN \A i \in DOMAIN results : results[i].result.success
     ELSE promise.state = "fulfilled" /\ promise.value.success

\* C10: the exit code is 0 if and only if every experiment succeeded.
C10_ExitCodeZeroIffAllSucceeded ==
  exitCode.exited => (exitCode.code = 0 <=> AllSucceeded)

\* the names of what experiment i did to the outside, in order
EffectsOf(i) ==
  SeqMap(LAMBDA x : x.e, SelectSeq(effects, LAMBDA x : x.exp = i))

Stages == <<"validate", "authenticate", "initialize", "execScript">>
StageRank(e) == CHOOSE k \in DOMAIN Stages : Stages[k] = e
StagesOf(i) == SelectSeq(EffectsOf(i), LAMBDA e : e \in Range(Stages))

\* the result experiment i resolved with, if it has one
HasOutcome(i) ==
  \/ \E k \in DOMAIN results : results[k].file = i
  \/ i = idx /\ promise.state = "fulfilled"
Outcome(i) ==
  IF \E k \in DOMAIN results : results[k].file = i
  THEN results[CHOOSE k \in DOMAIN results : results[k].file = i].result
  ELSE promise.value

\* the stage a failed result failed in
FailedStage(why) ==
  CASE why = "validation" -> 1
    [] why = "auth" -> 2
    [] why = "init" -> 3
    [] why = "runtime" -> 4
    [] OTHER -> 0

C12_ErrorsStopBeforeRemote ==
  (expPc = "settled" /\ vres.ran /\ ~vres.threw /\ Len(vres.errors) > 0) =>
     /\ promise.state = "fulfilled"
     /\ ~promise.value.success
     /\ promise.value.errors = ValidationErrors(data)
     /\ EffectsOfCurrent \cap RemoteEffects = {}
     /\ stack = <<>>
     /\ SinceClear = <<>>

C12_Witness ==
  /\ expPc = "settled"
  /\ ~cfg.dryRun
  /\ scriptExists
  /\ keyFile = "ok"
  /\ vres.ran
  /\ Len(vres.errors) = 3
  /\ promise.value.errors = vres.errors
  /\ idx = 2
  /\ Len(rlog) > 1

\* experiment i has been recorded with the result its promise resolved to
Resolved(i) == \E k \in DOMAIN results : results[k].file = i /\ results[k].result.why # ""

Started(i) ==
  \/ \E k \in DOMAIN effects : effects[k].exp = i
  \/ idx = i /\ expPc # "idle"

LoadedFor(j, k) ==
  /\ j < k
  /\ rlog[j].ev = "loaded"
  /\ rlog[j].id = rlog[k].id
  /\ rlog[j].val = rlog[k].val
  /\ \A c \in (j + 1)..(k - 1) : rlog[c].ev # "clear"

\* C14: in a batch the module cache is empty when an experiment starts, and a
\* resolve never returns a value that a module loaded in an earlier experiment.
C14_CacheEmptyAtStart ==
  cfg.batch =>
    /\ expPc = "call" => moduleCache = EmptyMap
    /\ \A k \in DOMAIN rlog :
         rlog[k].ev = "hit" => \E j \in DOMAIN rlog : LoadedFor(j, k)

C14_Witness ==
  /\ cfg.batch
  /\ idx = 2
  /\ \E k \in DOMAIN SinceClear : SinceClear[k].ev = "hit"
  /\ \E j \in 1..(Len(rlog) - 2) :
       rlog[j].ev = "loaded" /\ rlog[j + 1].ev = "hit" /\ rlog[j + 2].ev = "clear"

(***************************************************************************)
(* Claims about the warnings of validateSidecar, checked under             *)
(* SpecValidate                                                            *)
(***************************************************************************)
ModalityOf(d) == Get(Get(d, "inputParameters"), "modalityDictionary")

\* a dictionary none of whose modality keys is the boolean true
NoModalityTrue(md) ==
  /\ md.t = "object"
  /\ \A i \in DOMAIN MODALITY_KEYS : ~IsTrue(Get(md, MODALITY_KEYS[i]))

Warns(msg) == \E i \in DOMAIN vres.warnings : vres.warnings[i] = msg

\* C15: isValid is true exactly when the errors list is empty, whatever the
\* warnings are; a modalityDictionary with no key set to true gets the
\* no-modality warning and, without errors, the bundle stays valid.
C15_ValidIffNoErrors ==
  (vres.ran /\ ~vres.threw) =>
     /\ vres.isValid <=> Len(vres.errors) = 0
     /\ (Get(data, "inputParameters").t = "object" /\ NoModalityTrue(ModalityOf(data)))
          => Warns(MsgNoModality)

C15_Witness ==
  /\ vres.ran
  /\ CanRead(data)
  /\ \A i \in DOMAIN MODALITY_KEYS :
       Get(ModalityOf(data), MODALITY_KEYS[i]) = Bool(FALSE)
  /\ Warns(MsgNoModality)
  /\ vres.isValid

ChangeThresholdOf(d) == Get(Get(d, "analysisParameters"), "changeThreshold")

WarnsChangeThreshold ==
  \E i \in DOMAIN vres.warnings : Mentions(vres.warnings[i], "changeThreshold (")

\* C16: the changeThreshold warning is given exactly when changeThreshold is
\* present and outside [0, 1] (0, 1 and the values between them give none);
\* it carries the offending value and it is never an error.
C16_ChangeThresholdRange ==
  (vres.ran /\ ~vres.threw) =>
     LET ct == ChangeThresholdOf(data)
     IN /\ IsUndefined(ct) => ~WarnsChangeThreshold
        /\ ct.t = "number" =>
             /\ WarnsChangeThreshold <=> (ct.n < 0 \/ ct.n > 10)
             /\ WarnsChangeThreshold => Warns(MsgChangeThreshold(ct))
        /\ \A i \in DOMAIN vres.errors : ~Mentions(vres.errors[i], "changeThreshold (")
        /\ (WarnsChangeThreshold /\ Len(vres.errors) = 0) => vres.isValid

C16_Witness ==
  /\ vres.ran
  /\ ChangeThresholdOf(data) = Num(15)
  /\ Warns(MsgChangeThreshold(Num(15)))
  /\ vres.isValid

DropOf(d) == Get(Get(d, "analysisParameters"), "dropThresholdToDenoteChange")
GainOf(d) == Get(Get(d, "analysisParameters"), "gainThresholdToDenoteChange")

\* the bundle with its drop and gain thresholds put to x and y
WithDropGain(d, x, y) ==
  SetPath(SetPath(d, <<"analysisParameters", "dropThresholdToDenoteChange">>, x),
          <<"analysisParameters", "gainThresholdToDenoteChange">>, y)

WarnsDropGain(ws) == \E i \in DOMAIN ws : ws[i] = MsgDropGain

\* C17: the drop<gain warning is given exactly when both thresholds are
\* present and drop is strictly less than gain; the same bundle with the two
\* values swapped, or with both equal, gets no such warning.
C17_DropBelowGain ==
  (vres.ran /\ ~vres.threw) =>
     LET drop == DropOf(data)
         gain == GainOf(data)
     IN /\ (IsUndefined(drop) \/ IsUndefined(gain)) => ~WarnsDropGain(vres.warnings)
        /\ (drop.t = "number" /\ gain.t = "number") =>
             (WarnsDropGain(vres.warnings) <=> drop.n < gain.n)
        /\ (WarnsDropGain(vres.warnings) /\ Get(data, "analysisParameters").t = "object") =>
             /\ ~WarnsDropGain(validateSidecar(WithDropGain(data, gain, drop)).warnings)
             /\ ~WarnsDropGain(validateSidecar(WithDropGain(data, gain, gain)).warnings)

C17_Witness ==
  /\ vres.ran
  /\ DropOf(data) = Num(4)
  /\ GainOf(data) = Num(10)
  /\ WarnsDropGain(vres.warnings)
  /\ ~WarnsDropGain(validateSidecar(WithDropGain(data, Num(10), Num(4))).warnings)

(***************************************************************************)
(* Claims about reconstructGeometries, checked under SpecGeometry          *)
(***************************************************************************)
Reconstructed == expPc \in {"exec", "settled"}

InputOf(k) == Get(Get(data, "inputParameters"), k)

\* a and b are one and the same value (for objects: one and the same object)
Same(a, b) == DOMAIN a = DOMAIN b /\ a = b

\* C18: a bundle with defaultStudyAreaCoordinates gets as defaultStudyArea a
\* polygon of exactly those coordinates, geodesic as the supplied flag says
\* and false without a flag, whatever defaultStudyArea was before.
C18_StudyAreaFromCoordinates ==
  (Reconstructed /\ IsArray(InputOf("defaultStudyAreaCoordinates"))) =>
     LET area == InputOf("defaultStudyArea")
         flag == InputOf("defaultStudyAreaGeodesic")
     IN /\ area.t = "polygon"
        /\ area.coords = InputOf("defaultStudyAreaCoordinates")
        /\ area.geodesic = (IF IsUndefined(flag) THEN Bool(FALSE) ELSE flag)
        /\ area.ref # ParsedArea.ref

C18_Witness ==
  /\ Reconstructed
  /\ files[1].value.f.inputParameters.f.defaultStudyArea = ParsedArea
  /\ InputOf("defaultStudyAreaCoordinates") = CoordsA
  /\ InputOf("defaultStudyAreaGeodesic") = Bool(TRUE)
  /\ InputOf("defaultStudyArea") = Polygon(CoordsA, Bool(TRUE), 1)

EcpOf(sensor) == Get(InputOf(sensor), "expectationCollectionParameters")
AoiOf(sensor) == Get(EcpOf(sensor), "AOI")

\* a polygon the sensor got for itself from its own coordinates
OwnPolygon(sensor) ==
  /\ AoiOf(sensor).t = "polygon"
  /\ AoiOf(sensor).coords = Get(EcpOf(sensor), "AOICoordinates")
  /\ AoiOf(sensor).geodesic = Bool(FALSE)
  /\ InputOf("defaultStudyArea").t = "polygon" =>
       AoiOf(sensor).ref # InputOf("defaultStudyArea").ref

\* C19 as stated: a recognised sensor dictionary that is present without AOI
\* coordinates of its own, while a defaultStudyArea exists, has as its AOI the
\* very object that is defaultStudyArea; with AOICoordinates of its own it has
\* a polygon built for it.
C19_SensorAoiIsStudyArea ==
  Reconstructed =>
    \A sensor \in {"L8dictionary", "S2dictionary"} :
      /\ (/\ ~IsUndefined(InputOf(sensor))
          /\ IsUndefined(Get(EcpOf(sensor), "AOICoordinates"))
          /\ Truthy(InputOf("defaultStudyArea")))
           => Same(AoiOf(sensor), InputOf("defaultStudyArea"))
      /\ IsArray(Get(EcpOf(sensor), "AOICoordinates")) => OwnPolygon(sensor)

\* C19 as amended: the same, for a sensor dictionary whose
\* expectationCollectionParameters is an object.
C19_SensorWithParamsAliased ==
  Reconstructed =>
    \A sensor \in {"L8dictionary", "S2dictionary"} :
      /\ (/\ EcpOf(sensor).t = "object"
          /\ IsUndefined(Get(EcpOf(sensor), "AOICoordinates"))
          /\ Truthy(InputOf("defaultStudyArea")))
           => Same(AoiOf(sensor), InputOf("defaultStudyArea"))
      /\ IsArray(Get(EcpOf(sensor), "AOICoordinates")) => OwnPolygon(sensor)

C19_Witness ==
  /\ Reconstructed
  /\ InputOf("defaultStudyArea") = Polygon(CoordsA, Bool(FALSE), 1)
  /\ AoiOf("L8dictionary") = Polygon(CoordsB, Bool(FALSE), 2)
  /\ AoiOf("S2dictionary") = Polygon(CoordsA, Bool(FALSE), 1)
  /\ files[1].value.f.inputParameters.f.S2dictionary = Ecp(Obj([AOI |-> Str("x")]))

\* C20: every experiment whose validation produced warnings has them logged,
\* whatever --quiet and --silent are and whether or not it also has errors.
C20_WarningsAlwaysLogged ==
  (expPc = "settled" /\ vres.ran /\ ~vres.threw /\ Len(vres.warnings) > 0) =>
     "logWarnings" \in EffectsOfCurrent


(***************************************************************************)
(* What a module resolves to                                               *)
(***************************************************************************)
\* the code fills only its exports binding, by exports.a = 1 or exports = {a: 1}
OnlyExportsFilled(prog) ==
  /\ prog # <<>>
  /\ Range(prog) \subseteq {PutExports, AssignExports}

\* the object was given a property before the log entry at k
PopulatedBefore(v, k) ==
  \E j \in 1..(k - 1) : rlog[j].ev = "populate" /\ rlog[j].val = v

\* C21: a module whose code filled only its exports binding, by adding
\* properties to it or by assigning a new object to it, resolves to (and is
\* cached as) an object that was populated, never to an empty object.
C21_PopulatedExportsResolved ==
  \A k \in DOMAIN rlog :
    (rlog[k].ev = "loaded" /\ OnlyExportsFilled(progs[rlog[k].path])) =>
       PopulatedBefore(rlog[k].val, k)

(***************************************************************************)
(* Failed loads                                                            *)
(***************************************************************************)
Names(msg, v) == \E i \in DOMAIN msg : msg[i] = Val(v)

IsSuffix(t, msg) ==
  /\ Len(t) <= Len(msg)
  /\ SubSeq(msg, Len(msg) - Len(t) + 1, Len(msg)) = t

\* the text that the thrown value carries: an Error's message, a string itself
Carries(msg, cause) ==
  CASE cause.t = "error" -> IsSuffix(cause.message, msg)
    [] cause.t = "string" -> Mentions(msg, cause.s)
    [] OTHER -> TRUE

\* C22: whenever a module's code throws, the resolve fails with an error that
\* names the module's local path and the underlying message.
C22_FailedLoadNamesPathAndCause ==
  \A k \in DOMAIN rlog :
    rlog[k].ev = "failed" =>
      /\ Names(rlog[k].val.message, rlog[k].path)
      /\ Carries(rlog[k].val.message, rlog[k - 1].val)

(***************************************************************************)
(* Export calls of the caller script                                       *)
(***************************************************************************)
\* the calls of Export entry points that the caller script has made
ExportCallsMade ==
  SelectSeq(rlog, LAMBDA e : e.ev \in {"task", "noEntryPoint"})

SucceededLive ==
  /\ expPc = "settled"
  /\ promise.state = "fulfilled"
  /\ promise.value.success
  /\ promise.value.why = "ok"

\* C23: the tasksSubmitted count that a successful live run reports equals the
\* number of Export calls the caller script made.
C23_TasksSubmittedCountsCalls ==
  SucceededLive => promise.value.tasksSubmitted = Len(ExportCallsMade)

\* C25: a caller-script call to any of the nine entry points (image, table,
\* video x toAsset, toDrive, toCloudStorage) is forwarded to the client and
\* never fails because the entry point is missing.
C25_NoEntryPointMissing ==
  \A k \in DOMAIN rlog : rlog[k].ev # "noEntryPoint"

(***************************************************************************)
(* What the caller script receives as inputParams                          *)
(***************************************************************************)
KeysOf(v) == IF v.t = "object" THEN DOMAIN v.f ELSE {}

\* a and b are equal, but for the members named in skip when they are objects
SameExcept(a, b, skip) ==
  /\ a.t = b.t
  /\ IF a.t = "object"
     THEN \A k \in (KeysOf(a) \cup KeysOf(b)) \ skip : Get(a, k) = Get(b, k)
     ELSE a = b

\* the sidecar as JSON.parse gave it
ParsedSidecar == files[idx].value

EcpIn(v, sensor) ==
  Get(Get(Get(v, "inputParameters"), sensor), "expectationCollectionParameters")

\* C24: what the caller script receives as inputParams is the parsed sidecar:
\* nothing is merged into it, and the one reconstruction that ran before the
\* script changed only inputParameters.defaultStudyArea and the AOI of the
\* expectationCollectionParameters of L8dictionary and S2dictionary.
C24_InputParamsIsParsedSidecar ==
  expPc = "exec" =>
    /\ SameExcept(data, ParsedSidecar, {"inputParameters"})
    /\ SameExcept(Get(data, "inputParameters"), Get(ParsedSidecar, "inputParameters"),
                  {"defaultStudyArea", "L8dictionary", "S2dictionary"})
    /\ \A sensor \in {"L8dictionary", "S2dictionary"} :
         /\ SameExcept(InputOf(sensor), Get(Get(ParsedSidecar, "inputParameters"), sensor),
                       {"expectationCollectionParameters"})
         /\ SameExcept(EcpIn(data, sensor), EcpIn(ParsedSidecar, sensor), {"AOI"})

C24_Witness ==
  /\ expPc = "exec"
  /\ IsArray(InputOf("defaultStudyAreaCoordinates"))
  /\ InputOf("defaultStudyArea").t = "polygon"
  /\ Get(ParsedSidecar, "inputParameters").f.defaultStudyArea = Null
  /\ IsArray(Get(EcpIn(data, "L8dictionary"), "AOICoordinates"))
  /\ Get(EcpIn(data, "L8dictionary"), "AOI").t = "polygon"
  /\ Get(EcpIn(data, "S2dictionary"), "AOI") = InputOf("defaultStudyArea")
  /\ data # ParsedSidecar

(***************************************************************************)
(* The shared shims                                                        *)
(***************************************************************************)
\* C26: the Map and ui shims that every module context and the top-level
\* sandbox receive are read-only: no module or script alters their members.
C26_ShimsReadOnly ==
  stack # <<>> => stack[1].shims = ShimAsBuilt

(***************************************************************************)
(* Bundles without coordinates                                             *)
(***************************************************************************)
ParsedInput(k) == Get(Get(ParsedSidecar, "inputParameters"), k)

\* the sidecar has no defaultStudyAreaCoordinates and no sensor AOICoordinates
NoCoordinates ==
  /\ ~Truthy(ParsedInput("defaultStudyAreaCoordinates"))
  /\ \A sensor \in {"L8dictionary", "S2dictionary"} :
       ~Truthy(Get(EcpIn(ParsedSidecar, sensor), "AOICoordinates"))

CountBefore(ev, id, k) ==
  Cardinality({j \in 1..(k - 1) : rlog[j].ev = ev /\ rlog[j].id = id})

\* an execution of the module's file had started and not yet ended when the
\* log entry at k was written
Executing(id, k) ==
  CountBefore("exec", id, k) > CountBefore("loaded", id, k) + CountBefore("failed", id, k)

\* an execution of the module's file ran to completion before the log entry
\* at k, with no clear of the cache in between
CompletedBefore(id, k) ==
  \E j \in 1..(k - 1) :
    /\ rlog[j].ev = "loaded"
    /\ rlog[j].id = id
    /\ \A c \in (j + 1)..(k - 1) : rlog[c].ev # "clear"

\* C28 as stated: a resolve made while the module is still executing finds no
\* entry in the cache.
C28_NoHitWhileExecuting ==
  \A k \in DOMAIN rlog :
    rlog[k].ev = "hit" => ~Executing(rlog[k].id, k)

\* C28, amended: the cache holds an entry for an identifier only after an
\* execution of its file ran to completion; a resolve returns a cached value
\* only then, and a resolve that starts an execution does so exactly when no
\* execution of the identifier has completed since the cache was cleared,
\* whether or not the module is executing at that moment.
C28_CachedOnlyAfterCompletion ==
  /\ \A id \in DOMAIN moduleCache :
       /\ Loaded(id) # <<>>
       /\ moduleCache[id] = Loaded(id)[Len(Loaded(id))].val
  /\ \A k \in DOMAIN rlog :
       /\ rlog[k].ev = "hit" => CompletedBefore(rlog[k].id, k)
       /\ rlog[k].ev \in {"exec", "overflow"} => ~CompletedBefore(rlog[k].id, k)

\* an import cycle: the file is executing twice at once and nothing is cached
C28_Witness ==
  /\ Len(stack) >= 3
  /\ stack[2].id = IdF
  /\ stack[3].id = IdF
  /\ IdF \notin DOMAIN moduleCache
  /\ \E k \in DOMAIN rlog :
       rlog[k].ev = "exec" /\ rlog[k].id = IdF /\ Executing(IdF, k)

(***************************************************************************)
(* What precedes authentication                                            *)
(***************************************************************************)
Authenticated(i) == "authenticate" \in Range(EffectsOf(i))

\* the sidecar of experiment i was read and parsed and has no validation error
PassesValidation(i) ==
  /\ files[i].readable
  /\ files[i].parses
  /\ CanRead(files[i].value)
  /\ ValidationErrors(files[i].value) = <<>>

\* C29 as stated: a missing script or a missing key file gives a failed result
\* without any authentication call, in dry-run and live mode alike.
C29_MissingScriptOrKeyFails ==
  \A i \in 1..Len(files) :
    (HasOutcome(i) /\ (~scriptExists \/ keyFile = "missing")) =>
       (~Outcome(i).success /\ ~Authenticated(i))

\* C29, amended: authentication is attempted only when the sidecar was read
\* and parsed, validation reported no error, the caller script exists, the
\* run is not a dry run and the key file exists.  A missing script gives a
\* failed result in dry-run and live mode alike; a missing key file gives a
\* failed result in a live run, while a dry run never looks for the key file
\* and succeeds without it when everything before passed.
C29_AuthOnlyAfterChecks ==
  \A i \in 1..Len(files) :
    /\ Authenticated(i) =>
         (PassesValidation(i) /\ scriptExists /\ ~cfg.dryRun /\ keyFile = "ok")
    /\ (HasOutcome(i) /\ ~scriptExists) => ~Outcome(i).success
    /\ (HasOutcome(i) /\ keyFile = "missing" /\ ~cfg.dryRun) => ~Outcome(i).success
    /\ (HasOutcome(i) /\ cfg.dryRun) =>
         /\ "checkKey" \notin Range(EffectsOf(i))
         /\ Outcome(i).success <=> (PassesValidation(i) /\ scriptExists)

C29_Witness ==
  /\ Len(files) >= 1
  /\ ~cfg.dryRun
  /\ keyFile = "missing"
  /\ scriptExists
  /\ PassesValidation(1)
  /\ HasOutcome(1)
  /\ Outcome(1).why = "noKey"
  /\ ~Outcome(1).success
  /\ "checkKey" \in Range(EffectsOf(1))
  /\ ~Authenticated(1)

(***************************************************************************)
(* Termination                                                             *)
(***************************************************************************)
ResolvedWithResult ==
  /\ expPc = "settled"
  /\ promise.state = "fulfilled"
  /\ promise.value.success \in BOOLEAN

\* C30: while the Earth Engine client calls back, every call of runExperiment
\* eventually resolves with a result whose success is a boolean.
C30_EveryCallResolves == (expPc = "call") ~> ResolvedWithResult
=============================================================================
